---- MODULE Spec2Model ----
\* MovieLens two-tower demo (Week-4/app.js, its deep sibling app.js and
\* two-tower.js): data loading, the training loop with its yields to the
\* browser event loop, and test() with its top-K retrieval.
\*
\* JavaScript runs one task to completion: a handler runs from its entry to its
\* first await on a macrotask (fetch, tf.nextFrame) without any other handler
\* in between.  `cur` names the training run that holds the thread between two
\* model actions; every other action needs cur = 0.
EXTENDS Integers, Sequences, FiniteSets, TLC

VARIABLES
    variant,          \* "simple" (Week-4/app.js) or "deep" (the genre/MLP app.js)
    itemFile,         \* lines of data/u.item, fixed for one behaviour
    dataFile,         \* lines of data/u.data, fixed for one behaviour
    itemMapDefined,   \* whether the constructor assigned this.itemMap
    interactions,     \* this.interactions
    items,            \* this.items       : itemId -> [iIdx]
    userMap,          \* this.userMap     : userId -> uIdx
    itemMap,          \* this.itemMap     : itemId -> iIdx
    reverseUserMap,   \* this.reverseUserMap (position k+1 holds index k)
    reverseItemMap,   \* this.reverseItemMap
    userTopRated,     \* this.userTopRated   : userId -> sequence of interactions
    userRatedItems,   \* this.userRatedItems : userId -> set of itemIds
    testUsers,        \* this.testUsers, [defined, list]
    numUsers,         \* this.numUsers (-1: undefined)
    numItems,         \* this.numItems (-1: undefined)
    model,            \* this.model
    registeredVars,   \* run whose tf.variable names are registered in the engine, 0: none
    lossHistory,      \* this.lossHistory
    isTraining,       \* this.isTraining
    trainEnabled,     \* !document.getElementById('train').disabled
    testEnabled,      \* !document.getElementById('test').disabled
    status,           \* kind of the text in #status
    results,          \* content of #results, and the item ids test() gave a score
    loadPc,           \* position of each loadData() call
    runs,             \* each train() call: position and locals
    cur,              \* the train() call that holds the thread, 0: none
    projected,        \* what the last embedding projection read
    mf                \* the Week-3 matrix-factorization page: its globals and DOM

vars == <<variant, itemFile, dataFile, itemMapDefined, interactions, items,
          userMap, itemMap, reverseUserMap, reverseItemMap, userTopRated,
          userRatedItems, testUsers, numUsers, numItems, model, registeredVars,
          lossHistory, isTraining, trainEnabled, testEnabled, status, results,
          loadPc, runs, cur, projected, mf>>

dataVars == <<interactions, items, userMap, itemMap, reverseUserMap,
              reverseItemMap, userTopRated, userRatedItems, testUsers,
              numUsers, numItems>>

fileVars == <<variant, itemFile, dataFile, itemMapDefined, mf>>

-----------------------------------------------------------------------------
\* CONFIG, scaled down from the source's values so that caps, partial batches
\* and short candidate lists all occur on files of a few lines.
maxInteractions == 3
batchSize == 2
epochs == 2
topK == 2
minRatingsForTest == 2
\* i % 10 === 0 in the progress test of the training loop
progressEvery == 10

\* Bounds of the model: how many loadData() and train() calls one behaviour makes.
MaxLoads == 2
MaxRuns == 2

\* Values a dot-product score can take (floats abstracted to a few ranks).
ScoreVals == {0, 1}

-----------------------------------------------------------------------------
\* Helpers for JavaScript Map / Array values.
EmptyMap == [x \in {} |-> 0]
Put(m, k, v) == [x \in (DOMAIN m) \cup {k} |-> IF x = k THEN v ELSE m[x]]
Min(a, b) == IF a < b THEN a ELSE b
Range(s) == {s[k] : k \in DOMAIN s}
\* Array.prototype.slice(0, n)
SliceTo(s, n) == SubSeq(s, 1, Min(n, Len(s)))
\* Array.prototype.slice(from, to), 0-based, to exclusive
Slice(s, from, to) == SubSeq(s, from + 1, Min(to, Len(s)))
\* Array.prototype.filter
RECURSIVE Filter(_, _)
Filter(s, keep) ==
    IF s = <<>> THEN <<>>
    ELSE IF Head(s) \in keep THEN <<Head(s)>> \o Filter(Tail(s), keep)
    ELSE Filter(Tail(s), keep)

\* Array.prototype.sort is stable.  before holds the pairs <<i, j>> of
\* positions for which the comparator puts s[i] strictly before s[j];
\* elements the comparator ties keep their order.
StableSort(s, before) ==
    LET n == Len(s)
        rank(i) == Cardinality({j \in 1..n :
                        \/ <<j, i>> \in before
                        \/ (<<i, j>> \notin before /\ j < i)}) + 1
    IN [k \in 1..n |-> s[CHOOSE i \in 1..n : rank(i) = k]]

-----------------------------------------------------------------------------
\* Input files.  An item line is itemId|title|...; a rating line is
\* userId \t itemId \t rating \t ts.
\* A numeric field is written as the number it parses to (ratings and
\* timestamps are not negative); NonNumeric stands for a field whose text is
\* no number or that the line does not have, NaN for what parseInt returns
\* for it.
NonNumeric == -1
NaN == -2
\* parseInt(text, 10)
ParseInt(text) == IF text = NonNumeric THEN NaN ELSE text

ItemLine(id) == [itemId |-> id, hasTitle |-> TRUE]
Rating(u, i, r, t) == [userId |-> u, itemId |-> i, rating |-> r, ts |-> t]
\* An item line without a '|': parts[1] is undefined.
ShortItemLine(id) == [itemId |-> id, hasTitle |-> FALSE]
\* A rating line without a tab: itemId, rating and ts are undefined.
ShortRatingLine(u) == [userId |-> u, itemId |-> "undefined",
                       rating |-> NonNumeric, ts |-> NonNumeric]

\* Fixture 1: the rating tie of the spec's example (i1 = A, i2 = B, i3 = C for
\* u1) and a fourth line beyond the cap, by a user seen nowhere else.
Items1 == <<ItemLine("i1"), ItemLine("i2"), ItemLine("i3"), ItemLine("i4")>>
Data1 == <<Rating("u1", "i1", 5, 100), Rating("u1", "i2", 5, 200),
           Rating("u1", "i3", 3, 300), Rating("u3", "i4", 1, 400)>>
\* Fixture 2: a repeated item line, users first seen in the order u2, u1, more
\* unrated items than topK, two ratings that tie on rating and timestamp.
Items2 == <<ItemLine("i1"), ItemLine("i2"), ItemLine("i2"), ItemLine("i3"),
            ItemLine("i4"), ItemLine("i5")>>
Data2 == <<Rating("u2", "i3", 5, 10), Rating("u1", "i1", 4, 100),
           Rating("u2", "i4", 5, 10)>>
\* Fixture 3: a rating of an item that is not in the catalogue; nobody has
\* minRatingsForTest ratings.
Items3 == <<ItemLine("i1"), ItemLine("i2")>>
Data3 == <<Rating("u1", "i1", 5, 1), Rating("u1", "i9", 4, 2),
           Rating("u2", "i2", 4, 3)>>
\* Fixture 4: the only user has rated the whole catalogue.
Items4 == <<ItemLine("i1"), ItemLine("i2")>>
Data4 == <<Rating("u1", "i2", 1, 7), Rating("u1", "i1", 2, 7)>>
\* Fixture 5: an item line without a title between two well-formed ones.
Items5 == <<ItemLine("i1"), ShortItemLine("i2"), ItemLine("i3")>>
Data5 == <<Rating("u1", "i1", 5, 1), Rating("u1", "i3", 4, 2)>>
\* Fixture 6: a rating that is no number, then a short line, then a
\* well-formed line.
Items6 == <<ItemLine("i1"), ItemLine("i2")>>
Data6 == <<Rating("u1", "i1", NonNumeric, 5), ShortRatingLine("u1"),
           Rating("u1", "i2", 4, 6)>>
\* Fixture 7: data/u.data is not on the server; fetch resolves with the
\* server's 404 page, whose text has no tab.
Items7 == <<ItemLine("i1")>>
Data7 == <<ShortRatingLine("<html>")>>
\* Fixture 8: files that replace those of fixture 3 on the server: an item
\* and a user the earlier files did not have come first.
Items8 == <<ItemLine("i3"), ItemLine("i1")>>
Data8 == <<Rating("u5", "i3", 4, 9), Rating("u1", "i1", 5, 1)>>

Fixtures == {<<Items1, Data1>>, <<Items2, Data2>>, <<Items3, Data3>>,
             <<Items4, Data4>>, <<Items5, Data5>>, <<Items6, Data6>>,
             <<Items7, Data7>>}

-----------------------------------------------------------------------------
\* loadData(), part 1: the forEach over the lines of u.item.  st carries
\* itemMap, reverseItemMap, items and itemIndex; threw is set where the
\* callback throws a TypeError (title undefined, or this.itemMap undefined),
\* which leaves the lines after it unread.
\* Variant of IsNewItem: the check for a known item is left out.
IsNewItemAlways(imap, itemId) == TRUE

\* if (!this.itemMap.has(itemId))
IsNewItem(imap, itemId) == itemId \notin DOMAIN imap

RECURSIVE ParseItems(_, _, _)
ParseItems(lines, hasMap, st) ==
    IF lines = <<>> \/ st.threw THEN st
    ELSE LET line == Head(lines)
             itemId == line.itemId
         IN IF ~line.hasTitle \/ ~hasMap
            THEN [st EXCEPT !.threw = TRUE]
            ELSE IF IsNewItem(st.itemMap, itemId)
            THEN ParseItems(Tail(lines), hasMap,
                    [st EXCEPT !.itemMap = Put(@, itemId, st.itemIndex),
                               !.reverseItemMap = Append(@, itemId),
                               !.items = Put(@, itemId, [iIdx |-> st.itemIndex]),
                               !.itemIndex = @ + 1])
            ELSE ParseItems(Tail(lines), hasMap, st)

\* loadData(), part 2: the forEach over the first maxInteractions lines of
\* u.data.  A line whose item is not in itemMap is passed over.
\* Variant of UserIndexOf: the index of a known user is not looked up.
UserIndexOfNoLookup(umap, userId, userIndex) == userIndex

\* The user indexer: a new user gets userIndex, a known one its index.
UserIndexOf(umap, userId, userIndex) ==
    IF userId \notin DOMAIN umap THEN userIndex ELSE umap[userId]

\* Variant of RatedAfter: the set is replaced instead of extended.
RatedAfterReplace(rated, itemId) == {itemId}

\* this.userRatedItems.get(userId).add(itemId)
RatedAfter(rated, itemId) == rated \cup {itemId}

\* Variant of CappedLines: no cap.
CappedLinesNoCap(lines) == lines

\* interactionsLines.slice(0, CONFIG.maxInteractions)
CappedLines(lines) == SliceTo(lines, maxInteractions)

RECURSIVE ParseRatings(_, _, _)
ParseRatings(lines, imap, st) ==
    IF lines = <<>> THEN st
    ELSE LET line == Head(lines)
             userId == line.userId
             itemId == line.itemId
         IN IF itemId \notin DOMAIN imap
            THEN ParseRatings(Tail(lines), imap, st)
            ELSE LET known == userId \in DOMAIN st.userMap
                     uIdx == UserIndexOf(st.userMap, userId, st.userIndex)
                     interaction == [userId |-> userId, itemId |-> itemId,
                                     rating |-> ParseInt(line.rating),
                                     ts |-> ParseInt(line.ts),
                                     uIdx |-> uIdx, iIdx |-> imap[itemId]]
                     rated == IF userId \in DOMAIN st.userRatedItems
                              THEN st.userRatedItems[userId] ELSE {}
                     top == IF userId \in DOMAIN st.userTopRated
                            THEN st.userTopRated[userId] ELSE <<>>
                 IN ParseRatings(Tail(lines), imap,
                      [st EXCEPT
                         !.userMap = IF known THEN @ ELSE Put(@, userId, st.userIndex),
                         !.reverseUserMap = IF known THEN @ ELSE Append(@, userId),
                         !.userIndex = IF known THEN @ ELSE @ + 1,
                         !.rawInteractions = Append(@, interaction),
                         !.userRatedItems = Put(@, userId, RatedAfter(rated, itemId)),
                         !.userTopRated = Put(@, userId, Append(top, interaction))])

\* x !== y on numbers that may be NaN.
Differs(x, y) == x = NaN \/ y = NaN \/ x # y
\* Whether sort() takes x - y as negative: a NaN result counts as 0.
NegativeDifference(x, y) == x # NaN /\ y # NaN /\ x - y < 0

\* The comparator of the historical top-K sort: rating descending, then
\* timestamp descending.
TopRatedBefore(a, b) ==
    IF Differs(b.rating, a.rating) THEN NegativeDifference(b.rating, a.rating)
    ELSE NegativeDifference(b.ts, a.ts)

\* loadData(), part 3: sort every user's list and keep its first topK.
ComputeTopRated(lists) ==
    [u \in DOMAIN lists |-> SliceTo(StableSort(lists[u],
            {p \in (DOMAIN lists[u]) \X (DOMAIN lists[u]) :
                TopRatedBefore(lists[u][p[1]], lists[u][p[2]])}), topK)]

\* Variant of EligibleUsers: the comparison is turned round.
EligibleUsersAtMost(rum, rated) ==
    Filter(rum, {u \in Range(rum) : Cardinality(rated[u]) <= minRatingsForTest})

\* this.reverseUserMap.filter(userId => userRatedItems.get(userId).size >= min)
EligibleUsers(rum, rated) ==
    Filter(rum, {u \in Range(rum) : Cardinality(rated[u]) >= minRatingsForTest})


-----------------------------------------------------------------------------
\* test() / getTopKRecommendations: scores is the array getScoresForAllItems
\* returns, one score per item index.
ItemIdAt(rim, iIdx) == IF iIdx < Len(rim) THEN rim[iIdx + 1] ELSE "undefined"

\* Variant of AllItemsWithScores: only items of stored interactions get an entry.
AllItemsWithScoresTrainedOnly(scores, rim) ==
    LET all == [k \in 1..Len(scores) |->
                  [iIdx |-> k - 1, itemId |-> ItemIdAt(rim, k - 1), score |-> scores[k]]]
    IN Filter(all, {x \in Range(all) :
                      \E a \in DOMAIN interactions : interactions[a].itemId = x.itemId})

\* scores.map((score, iIdx) => ({ iIdx, itemId: reverseItemMap[iIdx], score }))
AllItemsWithScores(scores, rim) ==
    [k \in 1..Len(scores) |->
        [iIdx |-> k - 1, itemId |-> ItemIdAt(rim, k - 1), score |-> scores[k]]]

\* Variant of UnratedItems: the negation is left out.
UnratedItemsNoNegation(all, ratedItemIds) ==
    Filter(all, {x \in Range(all) : x.itemId \in ratedItemIds})

\* allItemsWithScores.filter(item => !ratedItemIds.has(item.itemId))
UnratedItems(all, ratedItemIds) ==
    Filter(all, {x \in Range(all) : x.itemId \notin ratedItemIds})

\* Variant of ScoreBefore: ascending.
ScoreBeforeAscending(a, b) == a.score - b.score < 0

\* The comparator (a, b) => b.score - a.score
ScoreBefore(a, b) == b.score - a.score < 0

\* unratedItems.sort(...).slice(0, CONFIG.topK)
SortAndSlice(unrated) ==
    SliceTo(StableSort(unrated,
                {p \in (DOMAIN unrated) \X (DOMAIN unrated) :
                    ScoreBefore(unrated[p[1]], unrated[p[2]])}), topK)

\* Steps 4 of test() in the simple app.
TopKUnrated(scores, ratedItemIds, rim) ==
    SortAndSlice(UnratedItems(AllItemsWithScores(scores, rim), ratedItemIds))

\* getTopKRecommendations of the deep app.
getTopKRecommendations(scores, ratedItemIds, rim) ==
    SortAndSlice(UnratedItems(AllItemsWithScores(scores, rim), ratedItemIds))

\* renderResultsTable reads this.items.get(rec.itemId).title for every row.
Renderable(list, its) == \A k \in DOMAIN list : list[k].itemId \in DOMAIN its

-----------------------------------------------------------------------------
\* The Week-3 page before its window.onload has run: model is undefined
\* (data.js) or null (script.js), nothing is predicted or awaited.
MfClosed ==
    [page |-> "none", pc |-> "closed",
     model |-> [exists |-> FALSE, epochs |-> 0, fitted |-> FALSE],
     predictBtnDisabled |-> FALSE, result |-> "",
     pending |-> <<>>,
     pred |-> [made |-> FALSE, user |-> 0, movie |-> 0, epochs |-> 0,
               fitted |-> FALSE]]

NoModel == [exists |-> FALSE, run |-> 0, numUsers |-> 0, numItems |-> 0,
            steps |-> 0, disposed |-> FALSE]
NoResults == [shown |-> FALSE, user |-> "", historical |-> <<>>, lists |-> <<>>,
              scored |-> {}]
NoRun == [pc |-> "new", epoch |-> 0, i |-> 0, copy |-> <<>>, numBatches |-> 0,
          steps |-> 0]

\* Whether the constructor assigns this.itemMap: the simple app's does, the
\* deep app's assigns every other map but not this one.
ConstructorSetsItemMap(v) == v = "simple"

\* The constructor and initializeUI().
Init ==
    /\ variant \in {"simple", "deep"}
    /\ \E f \in Fixtures : itemFile = f[1] /\ dataFile = f[2]
    /\ itemMapDefined = ConstructorSetsItemMap(variant)
    /\ interactions = <<>>
    /\ items = EmptyMap
    /\ userMap = EmptyMap
    /\ itemMap = EmptyMap
    /\ reverseUserMap = <<>>
    /\ reverseItemMap = <<>>
    /\ userTopRated = EmptyMap
    /\ userRatedItems = EmptyMap
    /\ testUsers = [defined |-> FALSE, list |-> <<>>]
    /\ numUsers = -1
    /\ numItems = -1
    /\ model = NoModel
    /\ registeredVars = 0
    /\ lossHistory = <<>>
    /\ isTraining = FALSE
    /\ trainEnabled = FALSE
    /\ testEnabled = FALSE
    /\ status = "clickLoad"
    /\ results = NoResults
    /\ loadPc = [l \in 1..MaxLoads |-> "new"]
    /\ runs = [r \in 1..MaxRuns |-> NoRun]
    /\ cur = 0
    /\ projected = [done |-> FALSE, run |-> 0, steps |-> 0]
    /\ mf = MfClosed

FirstNew(pcs, l) == pcs[l] = "new" /\ \A k \in 1..(l - 1) : pcs[k] # "new"

-----------------------------------------------------------------------------
\* loadData() up to its first await.
LoadData(l) ==
    /\ cur = 0
    /\ FirstNew(loadPc, l)
    /\ status' = "loading"
    /\ trainEnabled' = FALSE
    /\ testEnabled' = FALSE
    /\ loadPc' = [loadPc EXCEPT ![l] = "fetchItem"]
    /\ UNCHANGED <<fileVars, dataVars, model, registeredVars, lossHistory,
                   isTraining, results, runs, cur, projected>>

\* loadData() from the answer of fetch('data/u.item') to the next fetch.
FetchItem(l) ==
    /\ cur = 0
    /\ loadPc[l] = "fetchItem"
    /\ \E ok \in BOOLEAN :
        IF ~ok
        THEN /\ status' = "loadError"
             /\ loadPc' = [loadPc EXCEPT ![l] = "fetchError"]
             /\ UNCHANGED <<itemMap, reverseItemMap, items>>
        ELSE LET st == ParseItems(itemFile, itemMapDefined,
                          [itemMap |-> itemMap, reverseItemMap |-> reverseItemMap,
                           items |-> items, itemIndex |-> 0, threw |-> FALSE])
             IN /\ itemMap' = st.itemMap
                /\ reverseItemMap' = st.reverseItemMap
                /\ items' = st.items
                /\ IF st.threw
                   THEN /\ status' = "loadError"
                        /\ loadPc' = [loadPc EXCEPT ![l] = "parseError"]
                   ELSE /\ status' = status
                        /\ loadPc' = [loadPc EXCEPT ![l] = "fetchData"]
    /\ UNCHANGED <<fileVars, interactions, userMap, reverseUserMap, userTopRated,
                   userRatedItems, testUsers, numUsers, numItems, model,
                   registeredVars, lossHistory, isTraining, trainEnabled,
                   testEnabled, results, runs, cur, projected>>

\* loadData() from the answer of fetch('data/u.data') to its end.
FetchData(l) ==
    /\ cur = 0
    /\ loadPc[l] = "fetchData"
    /\ \E ok \in BOOLEAN :
        IF ~ok
        THEN /\ status' = "loadError"
             /\ loadPc' = [loadPc EXCEPT ![l] = "fetchError"]
             /\ UNCHANGED <<interactions, userMap, reverseUserMap, userTopRated,
                            userRatedItems, testUsers, numUsers, numItems,
                            trainEnabled>>
        ELSE LET st == ParseRatings(CappedLines(dataFile), itemMap,
                          [userMap |-> userMap, reverseUserMap |-> reverseUserMap,
                           userIndex |-> 0, rawInteractions |-> <<>>,
                           userRatedItems |-> userRatedItems,
                           userTopRated |-> userTopRated])
             IN /\ userMap' = st.userMap
                /\ reverseUserMap' = st.reverseUserMap
                /\ userRatedItems' = st.userRatedItems
                /\ interactions' = st.rawInteractions
                /\ userTopRated' = ComputeTopRated(st.userTopRated)
                /\ testUsers' = [defined |-> TRUE,
                                 list |-> EligibleUsers(st.reverseUserMap,
                                                        st.userRatedItems)]
                /\ numUsers' = Len(st.reverseUserMap)
                /\ numItems' = Len(reverseItemMap)
                /\ status' = "loaded"
                /\ trainEnabled' = TRUE
                /\ loadPc' = [loadPc EXCEPT ![l] = "ok"]
    /\ UNCHANGED <<fileVars, items, itemMap, reverseItemMap, model,
                   registeredVars, lossHistory, isTraining, testEnabled,
                   results, runs, cur, projected>>

-----------------------------------------------------------------------------
\* Variant of Ceil: rounded down.
CeilRoundedDown(n, b) == n \div b

\* Math.ceil(n / b)
Ceil(n, b) == (n + b - 1) \div b

\* What interactions.sort(() => Math.random() - 0.5) can leave: any order.
Perms(n) == {p \in [1..n -> 1..n] : \A a, b \in 1..n : a # b => p[a] # p[b]}

\* tf.gather on an embedding table throws on an index outside the table.
IndicesOk(batch, m) ==
    \A k \in DOMAIN batch : /\ batch[k].uIdx >= 0 /\ batch[k].uIdx < m.numUsers
                            /\ batch[k].iIdx >= 0 /\ batch[k].iIdx < m.numItems

\* Variant of CtorThrows: a registered name is no obstacle.
CtorNeverThrows == FALSE

\* new TwoTowerModel(...): tf.variable(..., 'user_embeddings') throws while a
\* variable of that name is registered in the engine.
CtorThrows == variant = "simple" /\ registeredVars # 0

\* Variant of AlreadyTraining: the guard never holds.
AlreadyTrainingNever == FALSE

\* The second guard of train(): if (this.isTraining) return
AlreadyTraining == isTraining

\* train() from its entry: the guards, the set-up, the model's construction.
Train(r) ==
    /\ cur = 0
    /\ FirstNew([k \in 1..MaxRuns |-> runs[k].pc], r)
    /\ IF Len(interactions) = 0
       THEN /\ status' = "dataNotLoaded"
            /\ UNCHANGED <<isTraining, trainEnabled, testEnabled, lossHistory,
                           model, registeredVars, runs, cur>>
       ELSE IF AlreadyTraining
       THEN UNCHANGED <<status, isTraining, trainEnabled, testEnabled,
                        lossHistory, model, registeredVars, runs, cur>>
       ELSE /\ isTraining' = TRUE
            /\ trainEnabled' = FALSE
            /\ testEnabled' = FALSE
            /\ lossHistory' = <<>>
            /\ status' = "trainInit"
            /\ IF CtorThrows
               THEN /\ runs' = [runs EXCEPT ![r].pc = "ctorFailed"]
                    /\ UNCHANGED <<model, registeredVars, cur>>
               ELSE /\ model' = [exists |-> TRUE, run |-> r,
                                 numUsers |-> numUsers, numItems |-> numItems,
                                 steps |-> 0, disposed |-> FALSE]
                    /\ registeredVars' = IF variant = "simple" THEN r
                                         ELSE registeredVars
                    /\ runs' = [runs EXCEPT ![r] =
                                  [pc |-> "shuffle", epoch |-> 0, i |-> 0,
                                   copy |-> interactions,
                                   numBatches |-> Ceil(Len(interactions), batchSize),
                                   steps |-> 0]]
                    /\ cur' = r
    /\ UNCHANGED <<fileVars, dataVars, results, loadPc, projected>>

\* Variant of StoredAfterSort: the sorted array is this.interactions itself.
StoredAfterSortAliased(stored, sorted) == sorted

\* this.interactions after the run's array was sorted in place: the run's
\* array is a copy ([...this.interactions]), so the stored one is as it was.
StoredAfterSort(stored, sorted) == stored

\* The shuffle at the top of an epoch.
Shuffle(r) ==
    /\ cur = r
    /\ runs[r].pc = "shuffle"
    /\ \E p \in Perms(Len(runs[r].copy)) :
         LET sorted == [k \in 1..Len(runs[r].copy) |-> runs[r].copy[p[k]]]
         IN /\ runs' = [runs EXCEPT ![r].copy = sorted,
                                    ![r].i = 0,
                                    ![r].pc = "batch"]
            /\ interactions' = StoredAfterSort(interactions, sorted)
    /\ UNCHANGED <<fileVars, items, userMap, itemMap, reverseUserMap,
                   reverseItemMap, userTopRated, userRatedItems, testUsers,
                   numUsers, numItems, model, registeredVars, lossHistory,
                   isTraining, trainEnabled, testEnabled, status, results,
                   loadPc, cur, projected>>

\* Variant of BatchAt: the window moves by one element, not by batchSize.
BatchAtStrideOne(run) == Slice(run.copy, run.i, run.i + batchSize)

\* The batch the loop body slices at index i.
BatchAt(run) == Slice(run.copy, run.i * batchSize, (run.i + 1) * batchSize)

\* The progress test after a train step.
Yields(run) == run.i % progressEvery = 0 \/ run.i = run.numBatches - 1

\* One pass of the inner loop body: trainStep on this.model, the loss pushed,
\* and, on a progress batch, the status and the yield to the next frame.
TrainStep(r) ==
    /\ cur = r
    /\ runs[r].pc = "batch"
    /\ \E ok \in BOOLEAN :
        IF ~ok \/ model.disposed \/ ~IndicesOk(BatchAt(runs[r]), model)
        THEN /\ runs' = [runs EXCEPT ![r].pc = "stepFailed", ![r].copy = <<>>]
             /\ cur' = 0
             /\ UNCHANGED <<model, lossHistory, status>>
        ELSE /\ model' = [model EXCEPT !.steps = @ + 1]
             /\ lossHistory' = Append(lossHistory,
                                 [run |-> model.run, step |-> model.steps + 1])
             /\ IF Yields(runs[r])
                THEN /\ status' = "progress"
                     /\ runs' = [runs EXCEPT ![r].pc = "frame", ![r].steps = @ + 1]
                     /\ cur' = 0
                ELSE /\ status' = status
                     /\ runs' = [runs EXCEPT ![r].i = @ + 1, ![r].steps = @ + 1]
                     /\ cur' = r
    /\ UNCHANGED <<fileVars, dataVars, registeredVars, isTraining, trainEnabled,
                   testEnabled, results, loadPc, projected>>

\* The condition of the inner loop, after i++.
MoreBatches(run) == run.i + 1 < run.numBatches

\* Variant of MoreEpochs: the loop ends one epoch early.
MoreEpochsOneShort(run) == run.epoch + 2 < epochs

\* The condition of the outer loop, after epoch++.
MoreEpochs(run) == run.epoch + 1 < epochs

\* tf.nextFrame() resolves: the loops go on to the next batch, the next epoch
\* or leave (the shuffled copy is not read again after the loops).
NextFrame(r) ==
    /\ cur = 0
    /\ runs[r].pc = "frame"
    /\ cur' = r
    /\ runs' = IF MoreBatches(runs[r])
               THEN [runs EXCEPT ![r].i = @ + 1, ![r].pc = "batch"]
               ELSE IF MoreEpochs(runs[r])
               THEN [runs EXCEPT ![r].epoch = @ + 1, ![r].pc = "shuffle"]
               ELSE [runs EXCEPT ![r].pc = "tail", ![r].copy = <<>>]
    /\ UNCHANGED <<fileVars, dataVars, model, registeredVars, lossHistory,
                   isTraining, trainEnabled, testEnabled, status, results,
                   loadPc, projected>>

\* After the loops: isTraining reset, both buttons enabled, and
\* drawEmbeddingProjection() entered.  The simple app's projection awaits a
\* frame before it reads the model; the deep app's has no await.
Finish(r) ==
    /\ cur = r
    /\ runs[r].pc = "tail"
    /\ isTraining' = FALSE
    /\ trainEnabled' = TRUE
    /\ testEnabled' = TRUE
    /\ cur' = 0
    /\ IF variant = "simple"
       THEN /\ status' = "trainDoneProjecting"
            /\ runs' = [runs EXCEPT ![r].pc = "projFrame"]
            /\ UNCHANGED projected
       ELSE /\ status' = "trainReadyDeep"
            /\ runs' = [runs EXCEPT ![r].pc = "done"]
            /\ projected' = [done |-> TRUE, run |-> model.run, steps |-> model.steps]
    /\ UNCHANGED <<fileVars, dataVars, model, registeredVars, lossHistory,
                   results, loadPc>>

\* The rest of the simple app's train(): the projection reads
\* this.model.getItemEmbeddings(), then tf.disposeVariables() disposes every
\* variable registered in the engine and empties the registry.
Projection(r) ==
    /\ cur = 0
    /\ runs[r].pc = "projFrame"
    /\ IF model.disposed
       THEN /\ runs' = [runs EXCEPT ![r].pc = "projFailed"]
            /\ UNCHANGED <<projected, model, registeredVars, status>>
       ELSE /\ projected' = [done |-> TRUE, run |-> model.run, steps |-> model.steps]
            /\ model' = IF registeredVars # 0 /\ model.run = registeredVars
                        THEN [model EXCEPT !.disposed = TRUE] ELSE model
            /\ registeredVars' = 0
            /\ status' = "trainReady"
            /\ runs' = [runs EXCEPT ![r].pc = "done"]
    /\ UNCHANGED <<fileVars, dataVars, lossHistory, isTraining, trainEnabled,
                   testEnabled, results, loadPc, cur>>

-----------------------------------------------------------------------------
\* Score arrays of the model's item count.
ScoreArrays(n) == [1..n -> ScoreVals]

\* getScores of the deep app: the product of all item embeddings with one
\* user embedding (embeddings are abstracted to one dimension).
getScores(userEmbedding, allItemEmbeddings) ==
    [k \in DOMAIN allItemEmbeddings |-> allItemEmbeddings[k] * userEmbedding]

\* Step 1 of the deep app's test(): dlUserEmb is what this.model.userForward
\* returns, allItemEmbs what this.model.getAllItemEmbeddings returns.
DeepScores(dlUserEmb, allItemEmbs) == getScores(dlUserEmb, allItemEmbs)

\* Step 2 of the deep app's test(): simpleUserEmb is the row gathered from
\* this.model.getUserEmbeddingMatrix(); simpleItemEmbsTensor is allItemEmbsTensor.
BaselineScores(simpleUserEmb, allItemEmbs) ==
    LET simpleItemEmbs == allItemEmbs
    IN getScores(simpleUserEmb, simpleItemEmbs)

\* The pairs <<dlScores, simpleScores>> one deep test() call can compute for
\* a catalogue of n items.
DeepScorePairs(n) ==
    {<<DeepScores(d, e), BaselineScores(b, e)>> :
        <<d, b, e>> \in ScoreVals \X ScoreVals \X ScoreArrays(n)}

\* Variant of NotReady: isTraining is not looked at.
NotReadyModelOnly == ~model.exists

\* The first guard of test(): !this.model || this.isTraining
NotReady == ~model.exists \/ isTraining

\* test().  Reading a disposed embedding table ends in an error of the tensor
\* library or, where the backend still holds the buffer, in a read.  The deep
\* app ranks twice; its await of a frame lies on a path that is never taken
\* (its loadData never gets past the item file) and is not a step of its own.
Test ==
    /\ cur = 0
    /\ IF NotReady
       THEN /\ status' = "notReady"
            /\ UNCHANGED results
       ELSE IF ~testUsers.defined
       THEN UNCHANGED <<status, results>>
       ELSE IF Len(testUsers.list) = 0
       THEN /\ status' = "noUsers"
            /\ UNCHANGED results
       ELSE \E randomUserId \in Range(testUsers.list) :
            \E reads \in BOOLEAN :
            \E scores \in ScoreArrays(model.numItems) :
            \E scores2 \in IF variant = "simple" THEN {scores}
                            ELSE {q[2] : q \in {p \in DeepScorePairs(model.numItems) :
                                                   p[1] = scores}} :
              LET userIdx == userMap[randomUserId]
                  historicalTop10 == IF randomUserId \in DOMAIN userTopRated
                                     THEN userTopRated[randomUserId] ELSE <<>>
                  ratedItemIds == IF randomUserId \in DOMAIN userRatedItems
                                  THEN userRatedItems[randomUserId] ELSE {}
                  lists == IF variant = "simple"
                           THEN <<TopKUnrated(scores, ratedItemIds, reverseItemMap)>>
                           ELSE <<getTopKRecommendations(scores, ratedItemIds, reverseItemMap),
                                  getTopKRecommendations(scores2, ratedItemIds, reverseItemMap)>>
                  threw == \/ model.disposed /\ ~reads
                           \/ userIdx < 0 \/ userIdx >= model.numUsers
                           \/ \E k \in DOMAIN lists : ~Renderable(lists[k], items)
              IN /\ ~model.disposed => reads
                 /\ IF threw
                    THEN /\ status' = "generating"
                         /\ results' = NoResults
                    ELSE /\ status' = "recsDone"
                         /\ results' = [shown |-> TRUE, user |-> randomUserId,
                                        historical |-> historicalTop10,
                                        lists |-> lists,
                                        scored |-> {x.itemId : x \in
                                            Range(AllItemsWithScores(scores, reverseItemMap))}]
    /\ UNCHANGED <<fileVars, dataVars, model, registeredVars, lossHistory,
                   isTraining, trainEnabled, testEnabled, loadPc, runs, cur,
                   projected>>

-----------------------------------------------------------------------------
Next ==
    \/ \E l \in 1..MaxLoads : LoadData(l)
    \/ \E l \in 1..MaxLoads : FetchItem(l)
    \/ \E l \in 1..MaxLoads : FetchData(l)
    \/ \E r \in 1..MaxRuns : Train(r)
    \/ \E r \in 1..MaxRuns : Shuffle(r)
    \/ \E r \in 1..MaxRuns : TrainStep(r)
    \/ \E r \in 1..MaxRuns : NextFrame(r)
    \/ \E r \in 1..MaxRuns : Finish(r)
    \/ \E r \in 1..MaxRuns : Projection(r)
    \/ Test

Spec == Init /\ [][Next]_vars

\* The event loop runs every continuation that is ready: a train() call that
\* holds the thread takes its next step, and a frame it awaits arrives.
Fairness ==
    \A r \in 1..MaxRuns :
        /\ WF_vars(Shuffle(r))
        /\ WF_vars(TrainStep(r))
        /\ WF_vars(NextFrame(r))
        /\ WF_vars(Finish(r))

\* The files on the server are replaced between two clicks on Load Data.
ReplaceFiles ==
    /\ cur = 0
    /\ itemFile = Items3 /\ dataFile = Data3
    /\ itemFile' = Items8
    /\ dataFile' = Data8
    /\ UNCHANGED <<variant, itemMapDefined, mf, dataVars, model, registeredVars,
                   lossHistory, isTraining, trainEnabled, testEnabled, status,
                   results, loadPc, runs, cur, projected>>

\* The simple app on the files of fixture 3, which fixture 8 can replace.
ChangeInit == Init /\ variant = "simple" /\ itemFile = Items3 /\ dataFile = Data3

ChangeNext == Next \/ ReplaceFiles

ChangeSpec == ChangeInit /\ [][ChangeNext]_vars

-----------------------------------------------------------------------------
\* The Week-3 matrix-factorization page.  data.js is a page of its own (it
\* has its own model, window.onload, trainModel and predictRating); script.js
\* is the other version of the page, which disables the Predict button.

\* Everything of the two-tower apps, which the Week-3 page does not touch.
appVars == <<variant, itemFile, dataFile, itemMapDefined, dataVars, model,
             registeredVars, lossHistory, isTraining, trainEnabled,
             testEnabled, status, results, loadPc, runs, cur, projected>>

\* Epochs of one model.fit call (5 in data.js, 8 in script.js).
fitEpochs == 2

\* predictRating() calls that may await their prediction's data at once.
MaxPending == 1

\* Values of the options in #user-select and #movie-select.
MfUsers == {0, 1}
MfMovies == {0, 1}

\* The prediction model.predict computes: which model state it ran against.
PredictionOf(m, u, v) ==
    [made |-> TRUE, user |-> u, movie |-> v, epochs |-> m.epochs,
     fitted |-> m.fitted]

\* window.onload of data.js up to its await of loadData().
dataOnload ==
    /\ mf.pc = "closed"
    /\ mf' = [mf EXCEPT !.page = "data", !.pc = "loading", !.result = "loading"]
    /\ UNCHANGED appVars

\* window.onload of script.js up to its await of loadData().
scriptOnload ==
    /\ mf.pc = "closed"
    /\ mf' = [mf EXCEPT !.page = "script", !.pc = "loading",
                        !.result = "loading", !.predictBtnDisabled = TRUE]
    /\ UNCHANGED appVars

\* data.js: loadData() settles.  On success the dropdowns are filled and
\* trainModel() runs up to its await of model.fit: model is assigned first.
dataLoaded ==
    /\ mf.page = "data" /\ mf.pc = "loading"
    /\ \E ok \in BOOLEAN :
         mf' = IF ok
               THEN [mf EXCEPT !.pc = "fitting", !.result = "training",
                               !.model = [exists |-> TRUE, epochs |-> 0,
                                          fitted |-> FALSE]]
               ELSE [mf EXCEPT !.pc = "failed", !.result = "error"]
    /\ UNCHANGED appVars

\* script.js: loadData() settles.  On success the selectors are filled and
\* trainModel() runs up to its await of model.fit: model is assigned first.
scriptLoaded ==
    /\ mf.page = "script" /\ mf.pc = "loading"
    /\ \E ok \in BOOLEAN :
         mf' = IF ok
               THEN [mf EXCEPT !.pc = "fitting", !.result = "starting",
                               !.model = [exists |-> TRUE, epochs |-> 0,
                                          fitted |-> FALSE]]
               ELSE [mf EXCEPT !.pc = "failed", !.result = "error",
                               !.predictBtnDisabled = TRUE]
    /\ UNCHANGED appVars

\* data.js: one epoch of model.fit ends; onEpochEnd writes the progress.
dataEpochEnd ==
    /\ mf.page = "data" /\ mf.pc = "fitting"
    /\ mf.model.epochs < fitEpochs
    /\ mf' = [mf EXCEPT !.model.epochs = @ + 1, !.result = "epoch"]
    /\ UNCHANGED appVars

\* script.js: one epoch of model.fit, from onEpochBegin to onEpochEnd.
scriptEpochEnd ==
    /\ mf.page = "script" /\ mf.pc = "fitting"
    /\ mf.model.epochs < fitEpochs
    /\ mf' = [mf EXCEPT !.model.epochs = @ + 1, !.result = "epoch"]
    /\ UNCHANGED appVars

\* data.js: model.fit resolves; trainModel disposes its tensors and onload
\* reports the end of training.
dataFitResolves ==
    /\ mf.page = "data" /\ mf.pc = "fitting"
    /\ mf.model.epochs = fitEpochs
    /\ mf' = [mf EXCEPT !.pc = "ready", !.model.fitted = TRUE,
                        !.result = "trained"]
    /\ UNCHANGED appVars

\* script.js: model.fit resolves; trainModel disposes its tensors, reports
\* and enables the Predict button.
scriptFitResolves ==
    /\ mf.page = "script" /\ mf.pc = "fitting"
    /\ mf.model.epochs = fitEpochs
    /\ mf' = [mf EXCEPT !.pc = "ready", !.model.fitted = TRUE,
                        !.result = "trained", !.predictBtnDisabled = FALSE]
    /\ UNCHANGED appVars

\* data.js: predictRating() up to its await of pred.data().  Nothing in
\* data.js disables the button that calls it.
dataPredictRating ==
    /\ mf.page = "data"
    /\ Len(mf.pending) < MaxPending
    /\ \E userId \in MfUsers, movieId \in MfMovies :
         IF ~mf.model.exists
         THEN mf' = [mf EXCEPT !.result = "notTrained"]
         ELSE LET pred == PredictionOf(mf.model, userId, movieId)
              IN mf' = [mf EXCEPT !.pred = pred,
                                  !.pending = Append(@, pred)]
    /\ UNCHANGED appVars

\* data.js: pred.data() resolves and the rating is shown.
dataPredictionShown ==
    /\ mf.page = "data"
    /\ mf.pending # <<>>
    /\ mf' = [mf EXCEPT !.pending = Tail(@), !.result = "predicted"]
    /\ UNCHANGED appVars

\* script.js: predictRating() up to its await of predTensor.data(), called
\* by a click on the Predict button (a disabled button gives no click).
\* The selects hold options by the time model is assigned, so that
\* parseInt of their values is a number.
scriptPredictRating ==
    /\ mf.page = "script"
    /\ ~mf.predictBtnDisabled
    /\ Len(mf.pending) < MaxPending
    /\ \E selectedUser \in MfUsers, selectedMovie \in MfMovies :
         IF ~mf.model.exists
         THEN mf' = [mf EXCEPT !.result = "notReady"]
         ELSE IF selectedUser = NaN \/ selectedMovie = NaN
         THEN mf' = [mf EXCEPT !.result = "selectBoth"]
         ELSE LET pred == PredictionOf(mf.model, selectedUser, selectedMovie)
              IN mf' = [mf EXCEPT !.result = "predicting",
                                  !.pred = pred,
                                  !.pending = Append(@, pred)]
    /\ UNCHANGED appVars

\* script.js: predTensor.data() resolves and the rating is shown.
scriptPredictionShown ==
    /\ mf.page = "script"
    /\ mf.pending # <<>>
    /\ mf' = [mf EXCEPT !.pending = Tail(@), !.result = "predicted"]
    /\ UNCHANGED appVars

\* The Week-3 page on its own: the two-tower app stays as constructed.
MfInit == Init /\ variant = "simple" /\ itemFile = Items1 /\ dataFile = Data1

MfNext ==
    \/ dataOnload
    \/ scriptOnload
    \/ dataLoaded
    \/ scriptLoaded
    \/ dataEpochEnd
    \/ scriptEpochEnd
    \/ dataFitResolves
    \/ scriptFitResolves
    \/ dataPredictRating
    \/ dataPredictionShown
    \/ scriptPredictRating
    \/ scriptPredictionShown

MfSpec == MfInit /\ [][MfNext]_vars

\* The simple app on the files of fixture 2 (three interactions, so an epoch
\* has a full and a partial batch), for the properties of fair behaviours.
FairInit == Init /\ variant = "simple" /\ itemFile = Items2 /\ dataFile = Data2

FairSpec == FairInit /\ [][Next]_vars /\ Fairness

-----------------------------------------------------------------------------
\* Notions the properties below share.
LoadPcs == {loadPc[l] : l \in 1..MaxLoads}
SomeLoadOk == "ok" \in LoadPcs
Catalogue == Range(reverseItemMap)
\* Lines that have every field, with numbers where numbers are required.
WellFormedItemLine(line) == line.hasTitle
WellFormedRatingLine(line) ==
    line.itemId # "undefined" /\ line.rating # NonNumeric /\ line.ts # NonNumeric
WellFormedFiles ==
    /\ \A k \in DOMAIN itemFile : WellFormedItemLine(itemFile[k])
    /\ \A k \in DOMAIN dataFile : WellFormedRatingLine(dataFile[k])
RatedBy(u) == IF u \in DOMAIN userRatedItems THEN userRatedItems[u] ELSE {}
\* Positions in this.interactions that belong to user u.
PositionsOf(u) == {k \in DOMAIN interactions : interactions[k].userId = u}
InLoop(r) == runs[r].pc \in {"shuffle", "batch", "frame", "tail"}
PastLoop(r) == runs[r].pc \in {"projFrame", "projFailed", "done"}
\* The ids of a sequence in order of first appearance.
RECURSIVE FirstSeen(_, _)
FirstSeen(ids, seen) ==
    IF ids = <<>> THEN <<>>
    ELSE IF Head(ids) \in seen THEN FirstSeen(Tail(ids), seen)
    ELSE <<Head(ids)>> \o FirstSeen(Tail(ids), seen \cup {Head(ids)})

TestOnlyAfterTraining ==
    [][(Test /\ ~(/\ model.exists
                  /\ PastLoop(model.run)
                  /\ \A r \in 1..MaxRuns : ~InLoop(r)))
         => (status' = "notReady" /\ results' = results)]_vars

\* C2 witness: test() was called during a training run and reported not ready.
TestOnlyAfterTrainingWitness ==
    /\ status = "notReady"
    /\ model.exists
    /\ \E r \in 1..MaxRuns : InLoop(r) /\ runs[r].steps >= 1

\* list has min(topK, U) entries, U the number of catalogue items outside
\* rated, with distinct item ids and scores in non-increasing order.
SizedAndOrdered(list, rated) ==
    /\ Len(list) = Min(topK, Cardinality(Catalogue \ rated))
    /\ \A a, b \in DOMAIN list : a # b => list[a].itemId # list[b].itemId
    /\ \A a \in 1..(Len(list) - 1) : list[a].score >= list[a + 1].score

LoadContract ==
    (/\ WellFormedFiles
     /\ loadPc[1] \in {"ok", "parseError"}
     /\ \A l \in 2..MaxLoads : loadPc[l] = "new"
     /\ \A r \in 1..MaxRuns : runs[r].pc = "new")
    => (/\ loadPc[1] = "ok"
        /\ Len(interactions) > 0
        /\ DOMAIN userMap # {}
        /\ DOMAIN itemMap # {}
        /\ DOMAIN userTopRated # {}
        /\ DOMAIN userRatedItems # {}
        /\ trainEnabled)

\* C5: once a load has completed, interaction indices are in range, the maps
\* are injective with the reverse maps their inverses, and indices count up
\* from 0 in order of first appearance.
IndexValidity ==
    SomeLoadOk =>
        /\ \A k \in DOMAIN interactions :
              /\ interactions[k].uIdx \in 0..(numUsers - 1)
              /\ interactions[k].iIdx \in 0..(numItems - 1)
              /\ interactions[k].uIdx = userMap[interactions[k].userId]
              /\ interactions[k].iIdx = itemMap[interactions[k].itemId]
        /\ \A u, v \in DOMAIN userMap : u # v => userMap[u] # userMap[v]
        /\ \A i, j \in DOMAIN itemMap : i # j => itemMap[i] # itemMap[j]
        /\ \A u \in DOMAIN userMap :
              /\ userMap[u] \in 0..(Len(reverseUserMap) - 1)
              /\ reverseUserMap[userMap[u] + 1] = u
        /\ \A i \in DOMAIN itemMap :
              /\ itemMap[i] \in 0..(Len(reverseItemMap) - 1)
              /\ reverseItemMap[itemMap[i] + 1] = i
        /\ reverseItemMap = FirstSeen([k \in DOMAIN itemFile |-> itemFile[k].itemId], {})
        /\ reverseUserMap = FirstSeen([k \in DOMAIN interactions |-> interactions[k].userId], {})

\* C5 witness: a completed load of a file with a repeated item line and a
\* user who comes back after another user was seen.
IndexValidityWitness ==
    /\ SomeLoadOk
    /\ Len(reverseItemMap) < Len(itemFile)
    /\ \E k \in DOMAIN interactions : k > 1 /\
          interactions[k].uIdx < interactions[k - 1].uIdx

\* C6: a step of a loadData() call taken after some loadData() call has
\* completed leaves the index assignments and the interactions as they were.
LoadIdempotent ==
    [][(SomeLoadOk /\ loadPc' # loadPc)
         => /\ userMap' = userMap
            /\ itemMap' = itemMap
            /\ reverseUserMap' = reverseUserMap
            /\ reverseItemMap' = reverseItemMap
            /\ numUsers' = numUsers
            /\ numItems' = numItems
            /\ Len(interactions') = Len(interactions)
            /\ interactions' = interactions]_vars

\* C6 witness: two loadData() calls have completed, the cap having cut the file.
LoadIdempotentWitness ==
    /\ Cardinality({l \in 1..MaxLoads : loadPc[l] = "ok"}) >= 2
    /\ Len(dataFile) > maxInteractions

\* a sorts strictly before b in the historical order.
Better(a, b) == a.rating > b.rating \/ (a.rating = b.rating /\ a.ts > b.ts)

\* list is a top-K selection of user u's stored interactions.
IsTopKOf(list, u) ==
    /\ Len(list) = Min(topK, Cardinality(PositionsOf(u)))
    /\ \A j \in 1..(Len(list) - 1) : ~Better(list[j + 1], list[j])
    /\ \E f \in [DOMAIN list -> PositionsOf(u)] :
          /\ \A a, b \in DOMAIN list : a # b => f[a] # f[b]
          /\ \A a \in DOMAIN list : list[a] = interactions[f[a]]
          /\ \A m \in PositionsOf(u) \ {f[a] : a \in DOMAIN list} :
                \A a \in DOMAIN list : ~Better(interactions[m], list[a])

\* C7: after a load of well-formed files, every user's userTopRated is the first min(topK, n) of
\* the user's n stored interactions by rating descending, then timestamp
\* descending.
HistoricalTopK ==
    (SomeLoadOk /\ WellFormedFiles) => \A u \in DOMAIN userTopRated : IsTopKOf(userTopRated[u], u)

\* C8: every user's rated set is the set of item ids of the user's stored
\* interactions, and every user of a stored interaction has a rated set.
RatedSetExact ==
    /\ \A u \in DOMAIN userRatedItems :
          userRatedItems[u] = {interactions[k].itemId : k \in PositionsOf(u)}
    /\ \A k \in DOMAIN interactions : interactions[k].userId \in DOMAIN userRatedItems

\* C8 witness: a completed load, a user with a rated item, and a rating
\* line within the cap whose item is not in the catalogue.
RatedSetExactWitness ==
    /\ SomeLoadOk
    /\ \E u \in DOMAIN userRatedItems : Cardinality(userRatedItems[u]) >= 1
    /\ \E k \in 1..Min(maxInteractions, Len(dataFile)) :
          dataFile[k].itemId \notin Catalogue

\* C9: there are at most maxInteractions stored interactions, and they are
\* lines among the first maxInteractions of the rating file, in file order.
InteractionCap ==
    /\ Len(interactions) <= maxInteractions
    /\ \E f \in [DOMAIN interactions -> 1..Min(maxInteractions, Len(dataFile))] :
          /\ \A a, b \in DOMAIN interactions : a < b => f[a] < f[b]
          /\ \A a \in DOMAIN interactions :
                /\ interactions[a].userId = dataFile[f[a]].userId
                /\ interactions[a].itemId = dataFile[f[a]].itemId
                /\ interactions[a].rating = ParseInt(dataFile[f[a]].rating)
                /\ interactions[a].ts = ParseInt(dataFile[f[a]].ts)

\* C9 witness: a file longer than the cap was loaded up to the cap.
InteractionCapWitness ==
    /\ SomeLoadOk
    /\ Len(dataFile) > maxInteractions
    /\ Len(interactions) = maxInteractions

\* C10: a test() call shows recommendations only for a user with at least
\* minRatingsForTest rated items; past its first guard with no such user it
\* reports that and leaves the results alone.
EvaluationEligibility ==
    [][Test =>
         /\ results'.shown => Cardinality(RatedBy(results'.user)) >= minRatingsForTest
         /\ (/\ ~NotReady
             /\ \A u \in DOMAIN userRatedItems :
                   Cardinality(userRatedItems[u]) < minRatingsForTest)
            => (status' = "noUsers" /\ results' = results)]_vars

\* C10 witness: recommendations are shown while another user has too few
\* ratings to be picked.
EvaluationEligibilityWitness ==
    /\ results.shown
    /\ status = "recsDone"
    /\ \E u \in DOMAIN userRatedItems :
          Cardinality(userRatedItems[u]) < minRatingsForTest

\* A loadData() call has read its files to the end or to the line it threw on.
LoadEnded == \E l \in 1..MaxLoads : loadPc[l] \in {"ok", "parseError"}

\* C11: a loadData() call on files with a missing field, a rating or
\* timestamp that is no number, or a file that is not there does not complete
\* normally, and no stored interaction holds a NaN.
DataErrorPropagation ==
    /\ ~WellFormedFiles => ~SomeLoadOk
    /\ \A k \in DOMAIN interactions :
          interactions[k].rating # NaN /\ interactions[k].ts # NaN

\* C12: once the simple app's loadData() has gone through its files, every
\* well-formed item line is in the catalogue, every well-formed rating line
\* within the cap on such an item is a stored interaction, and no stored
\* interaction comes from a malformed line.
MalformedLineSkipping ==
    (variant = "simple" /\ LoadEnded) =>
        /\ \A k \in DOMAIN itemFile :
              WellFormedItemLine(itemFile[k]) => itemFile[k].itemId \in DOMAIN itemMap
        /\ \A k \in DOMAIN CappedLines(dataFile) :
              (/\ WellFormedRatingLine(dataFile[k])
               /\ \E j \in DOMAIN itemFile : /\ WellFormedItemLine(itemFile[j])
                                              /\ itemFile[j].itemId = dataFile[k].itemId)
              => \E a \in DOMAIN interactions :
                    /\ interactions[a].userId = dataFile[k].userId
                    /\ interactions[a].itemId = dataFile[k].itemId
        /\ \A a \in DOMAIN interactions :
              interactions[a].rating # NaN /\ interactions[a].ts # NaN

\* C13: when a training run has left its loops, lossHistory holds
\* epochs * ceil(n / batchSize) entries, n the number of interactions, and
\* its k-th entry is the loss of the k-th train step of that run.
LossHistoryLength ==
    \A r \in 1..MaxRuns : runs[r].pc = "tail" =>
        /\ Len(lossHistory) =
              epochs * ((Len(interactions) + batchSize - 1) \div batchSize)
        /\ \A k \in DOMAIN lossHistory : lossHistory[k] = [run |-> r, step |-> k]

\* C13 witness: a second run has left its loops after a first one completed,
\* the last batch of an epoch being a partial one.
LossHistoryLengthWitness ==
    /\ MaxRuns >= 2
    /\ runs[1].pc = "done"
    /\ runs[2].pc = "tail"
    /\ Len(interactions) % batchSize # 0
    /\ Len(lossHistory) > epochs

\* A train step of run r has thrown.
StepFailed(r) == runs[r].pc = "stepFailed"

\* C14: the step in which a train step throws replaces the progress text in
\* the status by something else, and a run whose train step has thrown takes
\* no further step.
TrainingFailureSurfaces ==
    [][\A r \in 1..MaxRuns :
          /\ (runs[r].pc = "batch" /\ StepFailed(r)')
                => status' \notin {"trainInit", "progress"}
          /\ StepFailed(r) => (runs'[r] = runs[r] /\ model'.steps = model.steps)]_vars

\* C15: once a run has aborted on an exception, with data loaded and no
\* other call running, a train() call can start a new run: a new model, an
\* empty loss history, the loops entered.
RestartAfterFailure ==
    (/\ \E q \in 1..MaxRuns : StepFailed(q)
     /\ \E r \in 1..MaxRuns : runs[r].pc = "new"
     /\ Len(interactions) > 0
     /\ cur = 0)
    => ENABLED (\E r \in 1..MaxRuns :
                  /\ Train(r)
                  /\ runs'[r].pc = "shuffle"
                  /\ model'.exists /\ model'.run = r /\ model'.steps = 0
                  /\ lossHistory' = <<>>)

\* C16: while a run that aborted on an exception is the last one started,
\* this.model is not the model of that run and lossHistory holds none of its
\* losses.
NoPartialState ==
    \A r \in 1..MaxRuns : StepFailed(r) =>
        /\ ~(model.exists /\ model.run = r)
        /\ \A k \in DOMAIN lossHistory : lossHistory[k].run # r

\* C17: while the projection of run r waits for its frame, this.model is the
\* model run r trained, with all the steps of that run and no other; no run
\* is in its loops, no step changes the model, and the step that ends the
\* wait reads exactly that model.
ProjectionOverFrozenWeights ==
    [][\A r \in 1..MaxRuns : runs[r].pc = "projFrame" =>
          /\ model.exists /\ model.run = r /\ ~model.disposed
          /\ model.steps = epochs * runs[r].numBatches
          /\ \A q \in 1..MaxRuns : ~InLoop(q)
          /\ model'.steps = model.steps /\ model'.run = model.run
          /\ runs'[r].pc # "projFrame" =>
                projected' = [done |-> TRUE, run |-> r, steps |-> model.steps]]_vars

\* C17 witness: train() was called while a projection waited for its frame,
\* and the projection has read the embeddings since.
ProjectionOverFrozenWeightsWitness ==
    /\ projected.done
    /\ \E r, q \in 1..MaxRuns : runs[r].pc = "done" /\ runs[q].pc = "ctorFailed"

\* C18: once train() has returned normally, the model of that run is not
\* disposed and holds the weights of the run's last step.
WeightsFrozenForInference ==
    \A r \in 1..MaxRuns :
        (runs[r].pc = "done" /\ model.exists /\ model.run = r)
        => (~model.disposed /\ model.steps = runs[r].steps)

\* Items that occur in a stored interaction.
TrainedItems == {interactions[a].itemId : a \in DOMAIN interactions}

DeepColdStart ==
    (variant = "deep" /\ LoadEnded) =>
        \A k \in DOMAIN itemFile :
            WellFormedItemLine(itemFile[k]) => itemFile[k].itemId \in Catalogue

\* The catalogue a load of the item file gives.
FileCatalogue == FirstSeen([k \in DOMAIN itemFile |-> itemFile[k].itemId], {})

\* C21: in the deep app the baseline list does not depend on the deep item
\* tower: for one user and one catalogue, two outputs of the deep tower give
\* the same baseline ranking.
SideBySideComparison ==
    variant = "deep" =>
        \A b \in ScoreVals :
        \A e1, e2 \in ScoreArrays(Len(FileCatalogue)) :
            getTopKRecommendations(BaselineScores(b, e1), {}, FileCatalogue)
              = getTopKRecommendations(BaselineScores(b, e2), {}, FileCatalogue)

\* How often x occurs in the sequence q.
Occurrences(q, x) == Cardinality({j \in DOMAIN q : q[j] = x})

\* C22: while a run is in an epoch, its array is a permutation of the n
\* stored interactions, the numBatches windows of batchSize positions cover
\* positions 1..n without overlap, and the batch about to be trained on is
\* the window of index i: batchSize long, or n mod batchSize long and not
\* empty when it is the last.
EpochBatching ==
    \A r \in 1..MaxRuns : runs[r].pc \in {"batch", "frame"} =>
        LET n == Len(interactions)
            q == runs[r].copy
            i == runs[r].i
            nb == runs[r].numBatches
            batch == BatchAt(runs[r])
        IN /\ Len(q) = n
           /\ \A k \in DOMAIN interactions :
                 Occurrences(q, interactions[k]) = Occurrences(interactions, interactions[k])
           /\ i \in 0..(nb - 1)
           /\ (nb - 1) * batchSize < n /\ n <= nb * batchSize
           /\ Len(batch) >= 1
           /\ \A j \in DOMAIN batch : batch[j] = q[i * batchSize + j]
           /\ i < nb - 1 => Len(batch) = batchSize
           /\ i = nb - 1 => Len(batch) = n - (nb - 1) * batchSize
           /\ (i = nb - 1 /\ n % batchSize # 0) => Len(batch) = n % batchSize

\* C22 witness: a later epoch, the array in another order than the stored
\* interactions, the last batch a partial one, one step of the epoch done.
EpochBatchingWitness ==
    \E r \in 1..MaxRuns :
        /\ runs[r].pc = "batch"
        /\ runs[r].epoch >= 1
        /\ runs[r].copy # interactions
        /\ runs[r].i = runs[r].numBatches - 1
        /\ runs[r].i >= 1
        /\ Len(BatchAt(runs[r])) < batchSize

\* Run r has just left the Training state: all its steps done, isTraining
\* reset, both buttons enabled.
LeftTraining(r) ==
    /\ runs[r].pc = "projFrame"
    /\ runs[r].steps = epochs * ((Len(interactions) + batchSize - 1) \div batchSize)
    /\ ~isTraining
    /\ trainEnabled
    /\ testEnabled

\* C23: under fair scheduling, a run that has entered its loops leaves the
\* Training state after epochs * ceil(n / batchSize) steps, with isTraining
\* false and both buttons enabled, unless one of its train steps throws.
TrainingTerminates ==
    \A r \in 1..MaxRuns : InLoop(r) ~> (LeftTraining(r) \/ StepFailed(r))

\* C23 witness: a run has left the Training state after more than one batch
\* per epoch, a loadData() call having started meanwhile.
TrainingTerminatesWitness ==
    \E r \in 1..MaxRuns :
        /\ LeftTraining(r)
        /\ runs[r].steps > epochs
        /\ loadPc[1] = "ok" /\ loadPc[2] # "new"

\* C24: a step that is not a step of a loadData() call, that is every step
\* of train() and test(), leaves the loaded data as it was: the interactions
\* in content and order, the index maps, the rated sets, the top-K lists and
\* the test users.
LoadedDataReadOnly ==
    [][loadPc' = loadPc => dataVars' = dataVars]_vars

\* C24 witness: recommendations were shown, and a run is in an epoch with its
\* array in another order than the stored interactions.
LoadedDataReadOnlyWitness ==
    /\ results.shown
    /\ \E r \in 1..MaxRuns :
          /\ runs[r].pc = "batch"
          /\ Len(runs[r].copy) = Len(interactions)
          /\ runs[r].copy # interactions

\* C25: at most one run is in its loops; a train() call made while
\* isTraining is true changes nothing; a train() call made with no
\* interaction loaded changes the status text and nothing else.
SingleTrainer ==
    [][/\ Cardinality({r \in 1..MaxRuns : InLoop(r)}) <= 1
       /\ Cardinality({r \in 1..MaxRuns : InLoop(r)'}) <= 1
       /\ \A r \in 1..MaxRuns :
             /\ (Train(r) /\ Len(interactions) > 0 /\ isTraining) => UNCHANGED vars
             /\ (Train(r) /\ Len(interactions) = 0)
                   => /\ status' = "dataNotLoaded"
                      /\ UNCHANGED <<fileVars, dataVars, model, registeredVars,
                                     lossHistory, isTraining, trainEnabled,
                                     testEnabled, results, loadPc, runs, cur,
                                     projected>>]_vars

\* C25 witness: a run that has done a step waits for a frame, the moment at
\* which a click on Train can be handled, and another train() call is still
\* to come.
SingleTrainerWitness ==
    /\ isTraining
    /\ cur = 0
    /\ \E r, q \in 1..MaxRuns :
          /\ runs[r].pc = "frame" /\ runs[r].steps >= 1
          /\ runs[q].pc = "new"
          /\ ENABLED Train(q)

\* C26: the Train button is disabled while isTraining is true, and the Test
\* button is enabled only with a model and isTraining false.
ButtonGating ==
    /\ isTraining => ~trainEnabled
    /\ testEnabled => (model.exists /\ ~isTraining)

\* The top-K lists one load of the stored interactions gives.
SingleLoadTopRated ==
    ComputeTopRated([u \in DOMAIN userTopRated |->
        Filter(interactions, {x \in Range(interactions) : x.userId = u})])

\* C27: after any number of completed loads, no user's userTopRated list
\* holds an interaction twice, and every list is the one a single load gives.
TopRatedSurvivesReload ==
    SomeLoadOk =>
        /\ \A u \in DOMAIN userTopRated :
              \A a, b \in DOMAIN userTopRated[u] :
                  a # b => userTopRated[u][a] # userTopRated[u][b]
        /\ userTopRated = SingleLoadTopRated

\* C28: whatever loads came before, userMap and itemMap are injective and
\* the reverse maps are their inverses.
IndexMapsConsistent ==
    /\ \A u, v \in DOMAIN userMap : u # v => userMap[u] # userMap[v]
    /\ \A i, j \in DOMAIN itemMap : i # j => itemMap[i] # itemMap[j]
    /\ \A u \in DOMAIN userMap :
          /\ userMap[u] \in 0..(Len(reverseUserMap) - 1)
          /\ reverseUserMap[userMap[u] + 1] = u
    /\ \A i \in DOMAIN itemMap :
          /\ itemMap[i] \in 0..(Len(reverseItemMap) - 1)
          /\ reverseItemMap[itemMap[i] + 1] = i

\* C29: the projection and the cleanup of a finished run work on that run's
\* own model: the model read is the one the run built, the projection drawn
\* is of that model, and no variable of another run is disposed or left
\* registered.  A run started in the meantime has built no model by then.
RunIsolation ==
    [][\A r \in 1..MaxRuns :
         (runs[r].pc = "projFrame" /\ runs'[r].pc # "projFrame") =>
             /\ model.exists /\ model.run = r
             /\ registeredVars \in {0, r}
             /\ model'.run = r
             /\ projected' # projected => projected'.run = r
             /\ \A q \in 1..MaxRuns : q # r => runs'[q] = runs[q]]_vars

\* C29 witness: a run was started while an earlier finished run had its
\* projection pending, and that earlier run has projected and cleaned up.
RunIsolationWitness ==
    \E r, q \in 1..MaxRuns :
        /\ q # r
        /\ runs[q].pc = "ctorFailed"
        /\ runs[r].pc = "done"
        /\ projected.done /\ projected.run = r
        /\ model.run = r /\ model.disposed
        /\ registeredVars = 0

\* C30: on the matrix-factorization page every prediction is computed by a
\* model whose fit has completed.
PredictOnlyFitted ==
    /\ mf.pred.made => mf.pred.fitted
    /\ \A k \in DOMAIN mf.pending : mf.pending[k].fitted

====
